---- MODULE Spec2Model ----
(***************************************************************************)
(* BillOps billing core: the invoice generation task                       *)
(* (app/services/tasks/billing.py), the billing rule resolver              *)
(* (app/services/billing_rule.py) and the rows they read and write.        *)
(*                                                                         *)
(* The store variables hold COMMITTED rows only.  A run of                 *)
(* generate_invoice_task works on its own SQLAlchemy session: what it      *)
(* read is a private snapshot, what it flushed is pending (and row-locked) *)
(* until db.commit(), and db.close() without a commit discards it.         *)
(* Instants are small integers; money is integer cents.                    *)
(***************************************************************************)
EXTENDS Integers, Sequences, FiniteSets, TLC

VARIABLES
    entries,      \* time_entries rows: id -> row
    invoices,     \* invoices rows: id -> row
    lineItems,    \* invoice_line_items rows (a set; each row has its own id)
    rules,        \* billing_rules rows (a set of rows with distinct ids)
    now,          \* the wall clock, datetime.now(timezone.utc)
    runs,         \* one task request per run id: its session and position
    faults,       \* how many downstream steps (PDF, upload) have failed so far
    calc,         \* inputs and outputs of the line-item arithmetic under test
    query,        \* inputs and output of the rule resolver under test
    capture       \* a batch of activity signals and what the heuristics made of it

vars == <<entries, invoices, lineItems, rules, now, runs, faults, calc, query, capture>>

(***************************************************************************)
(* Bounds of the model                                                     *)
(***************************************************************************)
NumRuns == 2          \* concurrent task requests
MaxTime == 2          \* the clock runs 0..MaxTime
MaxFaults == 1        \* downstream failures (PDF rendering, S3 upload) injected
MaxMinutes == 36      \* durations tried by the arithmetic
MaxIncrement == 7     \* rounding increments tried: -1..MaxIncrement and None
MaxRuleSet == 2       \* rules in a resolver test set
MaxEdits == 1         \* billing rules edited or deleted while invoices are generated
MaxSignals == 3       \* activity signals in a batch
MaxStamp == 6         \* signal timestamps run 0..MaxStamp (half minutes)
ClassifyCalls == 2    \* times one signal is classified
MaxThreshold == 2     \* idle and merge thresholds of the detector, in minutes

(***************************************************************************)
(* Program constants                                                       *)
(***************************************************************************)
NULL == -1000         \* Python None / SQL NULL for integer-valued fields
max_retries == 3      \* @celery_app.task(..., max_retries=3)
MinutesPerHour == 60  \* qty_hours = billable_minutes / 60.0

RunIds == 1..NumRuns
Times == 0..MaxTime

(***************************************************************************)
(* _round_minutes: billing.py 37-40.  Python // is floor division, as is   *)
(* \div for a positive divisor.                                            *)
(***************************************************************************)
_round_minutes_floor(minutes, increment) ==
    IF increment = NULL \/ increment = 0 \/ increment <= 0
    THEN minutes
    ELSE (minutes \div increment) * increment

_round_minutes_above(minutes, increment) ==
    IF increment = NULL \/ increment = 0 \/ increment <= 0
    THEN minutes
    ELSE ((minutes \div increment) + 1) * increment

_round_minutes(minutes, increment) ==
    IF increment = NULL \/ increment = 0 \/ increment <= 0
    THEN minutes
    ELSE ((minutes + increment - 1) \div increment) * increment

(***************************************************************************)
(* amount_cents = int(round(qty_hours * (rate_cents or 0))) with           *)
(* qty_hours = billable_minutes / 60.0: billing.py 143-144.                *)
(*                                                                         *)
(* Both operations are IEEE-754 double operations and round() is Python's  *)
(* round-half-to-even.  Away from an exact half (minutes*rate mod 60 # 30) *)
(* the double error is far below the distance to the half, so the result   *)
(* is the nearest integer.  At an exact half the two roundings decide:     *)
(*   q^ = RN(m/60) = m/60 + (c/15) * ulp(q),  c in -7..7 from m*2^k mod 15 *)
(*   q^ * r = (k + 1/2) + (c*r/15) * ulp(q)                                *)
(* and RN of that stays on k + 1/2 unless the offset exceeds half an ulp   *)
(* of the product (a quarter below 0.5, where the spacing halves).         *)
(***************************************************************************)
Pow2(n) == IF n <= 0 THEN 1 ELSE 2 ^ n

RECURSIVE FloorLog2(_, _)
\* floor(log2(num / den)) for num, den > 0
FloorLog2(num, den) ==
    IF num >= 2 * den THEN 1 + FloorLog2(num, 2 * den)
    ELSE IF num < den THEN FloorLog2(2 * num, den) - 1
    ELSE 0

OrZero(x) == IF x = NULL \/ x = 0 THEN 0 ELSE x

HalfEven(k) == IF k % 2 = 0 THEN k ELSE k + 1

\* the double product at an exact half k + 1/2, then round(), then int()
RoundAtHalf(m, r, k) ==
    LET e   == FloorLog2(m, MinutesPerHour)
        E   == FloorLog2(2 * k + 1, 2)
        rho == ((m % 15) * Pow2((50 - e) % 4)) % 15
        c   == IF rho <= 7 THEN 0 - rho ELSE 15 - rho
        mag == IF c < 0 THEN 0 - c ELSE c
        thr == 15 * Pow2(E - e)
        mul == IF k = 0 /\ c < 0 THEN 4 ELSE 2
    IN  IF c # 0 /\ mul * mag * r > thr
        THEN (IF c < 0 THEN k ELSE k + 1)
        ELSE HalfEven(k)

AmountCents(billable_minutes, rate_cents) ==
    LET r   == OrZero(rate_cents)
        n   == billable_minutes * r
        k   == n \div MinutesPerHour
        rem == n % MinutesPerHour
    IN  IF 2 * rem < MinutesPerHour THEN k
        ELSE IF 2 * rem > MinutesPerHour THEN k + 1
        ELSE RoundAtHalf(billable_minutes, r, k)

(***************************************************************************)
(* BillingRuleService.get_active_for_project: billing_rule.py 42-52.       *)
(* filter(project_id == p, effective_from <= now,                          *)
(*        effective_to IS NULL OR effective_to > now)                      *)
(* .order_by(effective_from.desc()).first()                                *)
(* first() of an empty result is None; rows that tie on effective_from     *)
(* come in an order SQL leaves open, so any of them may be the first.      *)
(***************************************************************************)
NoRule ==
    [id |-> NULL, project_id |-> NULL, rule_type |-> "null", rate_cents |-> NULL,
     rounding_increment_minutes |-> NULL, effective_from |-> NULL,
     effective_to |-> NULL]

RuleFilterClosedEnd(rs, project_id, t) ==
    {r \in rs : /\ r.project_id = project_id
                /\ r.effective_from <= t
                /\ (r.effective_to = NULL \/ r.effective_to >= t)}

RuleFilter(rs, project_id, t) ==
    {r \in rs : /\ r.project_id = project_id
                /\ r.effective_from <= t
                /\ (r.effective_to = NULL \/ r.effective_to > t)}

FirstByEffectiveFromDesc(matching) ==
    IF matching = {} THEN {NoRule}
    ELSE {r \in matching : \A o \in matching : o.effective_from <= r.effective_from}

\* the rows the query may return (a singleton unless effective_from ties)
get_active_for_project(rs, project_id, t) ==
    FirstByEffectiveFromDesc(RuleFilter(rs, project_id, t))

(***************************************************************************)
(* The rows of the billing scenario                                        *)
(***************************************************************************)
EntryIds == 1..4
InvoiceIds == 1..2
MissingInvoice == 3   \* an invoice id with no row

BaseRules ==
    { [id |-> 1, project_id |-> 1, rule_type |-> "hourly", rate_cents |-> 10000,
       rounding_increment_minutes |-> 15, effective_from |-> 1, effective_to |-> 3],
      [id |-> 2, project_id |-> 1, rule_type |-> "hourly", rate_cents |-> 5,
       rounding_increment_minutes |-> NULL, effective_from |-> 2, effective_to |-> NULL],
      [id |-> 3, project_id |-> 2, rule_type |-> "fixed", rate_cents |-> 6000,
       rounding_increment_minutes |-> 6, effective_from |-> 0, effective_to |-> NULL] }

\* TimeEntry columns: models/time_entry.py 13-23
BaseEntries(s1, s2, s3) ==
    (1 :> [client_id |-> 1, project_id |-> 1, billing_rule_id |-> NULL,
           started_at |-> 1, ended_at |-> 2, duration_minutes |-> 17, status |-> s1])
 @@ (2 :> [client_id |-> 1, project_id |-> 1, billing_rule_id |-> 3,
           started_at |-> 0, ended_at |-> 1, duration_minutes |-> 30, status |-> s2])
 @@ (3 :> [client_id |-> 1, project_id |-> 2, billing_rule_id |-> NULL,
           started_at |-> 1, ended_at |-> 3, duration_minutes |-> 45, status |-> s3])
 @@ (4 :> [client_id |-> 2, project_id |-> 1, billing_rule_id |-> NULL,
           started_at |-> 1, ended_at |-> 2, duration_minutes |-> 60, status |-> "approved"])

\* Invoice columns: models/invoice.py 72-84; meta holds the optional period,
\* the PDF URL and whether generated_at has been set (not the instant itself)
BaseInvoices ==
    (1 :> [client_id |-> 1, project_id |-> 1, status |-> "draft",
           subtotal_cents |-> 0, tax_cents |-> 7, total_cents |-> 7,
           meta |-> [period_start |-> 0, period_end |-> 2,
                     pdf_url |-> "null", generated_at |-> "null"]])
 @@ (2 :> [client_id |-> 1, project_id |-> NULL, status |-> "draft",
           subtotal_cents |-> 0, tax_cents |-> 0, total_cents |-> 0,
           meta |-> [period_start |-> NULL, period_end |-> NULL,
                     pdf_url |-> "null", generated_at |-> "null"]])

(***************************************************************************)
(* A run of generate_invoice_task: billing.py 43-231                       *)
(***************************************************************************)
NoInvoice ==
    [client_id |-> NULL, project_id |-> NULL, status |-> "null",
     subtotal_cents |-> NULL, tax_cents |-> NULL, total_cents |-> NULL,
     meta |-> [period_start |-> NULL, period_end |-> NULL,
               pdf_url |-> "null", generated_at |-> "null"]]

IdleRun ==
    [pc |-> "idle", invoice_id |-> NULL, invoice |-> NoInvoice, entries |-> <<>>,
     rule |-> NoRule, line_items |-> <<>>, subtotal_cents |-> 0,
     retries |-> 0, result |-> "none", message |-> "none"]

DummyCalc == [minutes |-> 0, increment |-> NULL, rate_cents |-> 0,
              billable_minutes |-> NULL, amount_cents |-> NULL, done |-> FALSE]
DummyQuery == [project_id |-> NULL, at |-> NULL, result |-> NoRule, done |-> FALSE]
DummyCapture == [signals |-> <<>>, idle_threshold_minutes |-> 0,
                 max_merge_idle_minutes |-> 0, groups |-> <<>>,
                 suggested |-> <<>>, activity_types |-> <<>>,
                 work_related |-> <<>>, done |-> FALSE,
                 raised |-> "none", idle_periods |-> <<>>,
                 mergeable |-> <<>>, breaks |-> <<>>,
                 user_found |-> TRUE, status |-> "none",
                 created_ids |-> <<>>, verification_required |-> <<>>]

\* the statuses of entries 1..3 at the start
StartStatuses ==
    { <<"approved", "approved", "approved">>,
      <<"approved", "pending", "rejected">>,
      <<"pending", "billed", "rejected">> }

Init ==
    /\ \E st \in StartStatuses : entries = BaseEntries(st[1], st[2], st[3])
    /\ invoices = BaseInvoices
    /\ lineItems = {}
    /\ rules = BaseRules
    /\ now = 0
    /\ runs = [r \in RunIds |-> IdleRun]
    /\ faults = 0
    /\ calc = DummyCalc
    /\ query = DummyQuery
    /\ capture = DummyCapture

(***************************************************************************)
(* Collecting the approved entries: billing.py 100-125                     *)
(***************************************************************************)
\* the filters of the query; a period bound is applied only when present
EntryFilterAnyStatus(inv, e) ==
    /\ e.client_id = inv.client_id
    /\ (inv.project_id # NULL => e.project_id = inv.project_id)
    /\ (inv.meta.period_start # NULL => e.started_at >= inv.meta.period_start)
    /\ (inv.meta.period_end # NULL => e.ended_at <= inv.meta.period_end)

EntryFilter(inv, e) ==
    /\ e.client_id = inv.client_id
    /\ e.status = "approved"
    /\ (inv.project_id # NULL => e.project_id = inv.project_id)
    /\ (inv.meta.period_start # NULL => e.started_at >= inv.meta.period_start)
    /\ (inv.meta.period_end # NULL => e.ended_at <= inv.meta.period_end)

Matching(inv, es) == {id \in DOMAIN es : EntryFilter(inv, es[id])}

SeqRange(seq) == {seq[i] : i \in 1..Len(seq)}

\* order_by(started_at.asc()).all(): every order of the matching rows that is
\* ascending in started_at (rows with equal started_at come in any order)
OrderByStartedAt(ids, es) ==
    {seq \in [1..Cardinality(ids) -> ids] :
        /\ SeqRange(seq) = ids
        /\ \A i, j \in 1..Cardinality(ids) :
              i < j => es[seq[i]].started_at <= es[seq[j]].started_at}

(***************************************************************************)
(* The loop over the entries: billing.py 134-168                           *)
(***************************************************************************)
RECURSIVE SumAmounts(_)
SumAmounts(items) ==
    IF items = <<>> THEN 0
    ELSE Head(items).amount_cents + SumAmounts(Tail(items))

\* rate_cents / increment of the run: rule.x if rule else 0   (139-140)
RuleRate(rule) == IF rule.id # NULL THEN rule.rate_cents ELSE 0
RuleIncrement(rule) == IF rule.id # NULL THEN rule.rounding_increment_minutes ELSE 0

\* a line item that keeps no record of the rule
LineItemNoSnapshot(item_id, invoice_id, te_id, te, rule) ==
    [id |-> item_id, invoice_id |-> invoice_id, time_entry_id |-> te_id,
     unit_price_cents |-> OrZero(RuleRate(rule)),
     amount_cents |-> AmountCents(_round_minutes(te.duration_minutes, RuleIncrement(rule)),
                                  RuleRate(rule)),
     billing_rule_snapshot |->
        [rule_id |-> NULL, rule_type |-> "null", rate_cents |-> 0,
         increment_minutes |-> 0]]

\* a line item that is not tied to its entry
LineItemDetached(item_id, invoice_id, te_id, te, rule) ==
    [id |-> item_id, invoice_id |-> invoice_id, time_entry_id |-> NULL,
     unit_price_cents |-> OrZero(RuleRate(rule)),
     amount_cents |-> AmountCents(_round_minutes(te.duration_minutes, RuleIncrement(rule)),
                                  RuleRate(rule)),
     billing_rule_snapshot |->
        [rule_id |-> rule.id, rule_type |-> rule.rule_type,
         rate_cents |-> OrZero(RuleRate(rule)),
         increment_minutes |-> OrZero(RuleIncrement(rule))]]

\* each entry is priced by the rule active on its own project when it started
LineItemEntryRule(item_id, invoice_id, te_id, te, rule) ==
    LET own == CHOOSE x \in get_active_for_project(rules, te.project_id, te.started_at) :
                  TRUE
        rate_cents == RuleRate(own)
        increment == RuleIncrement(own)
        billable_minutes == _round_minutes(te.duration_minutes, increment)
    IN  [id |-> item_id,
         invoice_id |-> invoice_id,
         time_entry_id |-> te_id,
         unit_price_cents |-> OrZero(rate_cents),
         amount_cents |-> AmountCents(billable_minutes, rate_cents),
         billing_rule_snapshot |->
            [rule_id |-> own.id,
             rule_type |-> own.rule_type,
             rate_cents |-> OrZero(rate_cents),
             increment_minutes |-> OrZero(increment)]]

\* the InvoiceLineItem built for entry te: billing.py 142-159.  Its primary
\* key (a fresh UUID) names the run, the attempt and the position in the loop.
LineItem(item_id, invoice_id, te_id, te, rule) ==
    LET rate_cents == RuleRate(rule)
        increment == RuleIncrement(rule)
        billable_minutes == _round_minutes(te.duration_minutes, increment)
    IN  [id |-> item_id,
         invoice_id |-> invoice_id,
         time_entry_id |-> te_id,
         unit_price_cents |-> OrZero(rate_cents),
         amount_cents |-> AmountCents(billable_minutes, rate_cents),
         billing_rule_snapshot |->
            [rule_id |-> rule.id,
             rule_type |-> rule.rule_type,
             rate_cents |-> OrZero(rate_cents),
             increment_minutes |-> OrZero(increment)]]

\* subtotal_cents += amount_cents over the loop: billing.py 135, 161
SubtotalSkipFirst(items) == IF items = <<>> THEN 0 ELSE SumAmounts(Tail(items))

Subtotal(items) == SumAmounts(items)

\* invoice.total_cents = (subtotal or 0) + (tax or 0): billing.py 171-173
TotalIgnoringTax(subtotal_cents, tax_cents) == OrZero(subtotal_cents)

Total(subtotal_cents, tax_cents) == OrZero(subtotal_cents) + OrZero(tax_cents)

\* te.status = "billed"; if rule: te.billing_rule_id = rule.id   (165-167)
BilledRowKeepStatus(te, rule) ==
    [te EXCEPT !.billing_rule_id = IF rule.id # NULL THEN rule.id ELSE @]

BilledRowClearRule(te, rule) ==
    [te EXCEPT !.status = "billed", !.billing_rule_id = rule.id]

\* the entry takes the rounded minutes of its line item
BilledRowRounded(te, rule) ==
    [te EXCEPT !.status = "billed",
               !.billing_rule_id = IF rule.id # NULL THEN rule.id ELSE @,
               !.duration_minutes = _round_minutes(@, RuleIncrement(rule))]

BilledRow(te, rule) ==
    [te EXCEPT !.status = "billed",
               !.billing_rule_id = IF rule.id # NULL THEN rule.id ELSE @]

(***************************************************************************)
(* Steps of a run                                                          *)
(***************************************************************************)
\* the run after its return: the finally clause has closed the session
\* (230-231), what is left is the result it returned and, for a retry, the
\* request to run again
Ended(inv_id, retries, pc, result, message, subtotal_cents) ==
    [IdleRun EXCEPT !.pc = pc, !.invoice_id = inv_id, !.retries = retries,
                    !.result = result, !.message = message,
                    !.subtotal_cents = subtotal_cents]

Requestable == InvoiceIds \cup {MissingInvoice}

\* 83-127: a new session reads the invoice row (with its client, project and
\* period) and runs the query; no invoice and no rows are error results.
\* The two reads are one step: between them only a commit on the same invoice
\* could change a row they read, and after it the query finds nothing.
Load(r, inv_id) ==
    IF inv_id \notin DOMAIN invoices
    THEN runs' = [runs EXCEPT ![r] =
            Ended(inv_id, runs[r].retries, "done", "error", "Invoice not found", 0)]
    ELSE \E seq \in OrderByStartedAt(Matching(invoices[inv_id], entries), entries) :
            runs' = [runs EXCEPT ![r] =
               IF seq = <<>>
               THEN Ended(inv_id, runs[r].retries, "done", "error",
                          "No approved time entries found for invoice", 0)
               ELSE [@ EXCEPT !.pc = "collected", !.invoice_id = inv_id,
                              !.invoice = invoices[inv_id], !.entries = seq,
                              !.result = "none", !.message = "none"]]

\* the task is called for an invoice (requests are numbered in arrival order)
Begin(r, inv_id) ==
    /\ runs[r].pc = "idle"
    /\ \A earlier \in RunIds : earlier < r => runs[earlier].pc # "idle"
    /\ inv_id \in Requestable
    /\ Load(r, inv_id)
    /\ UNCHANGED <<entries, invoices, lineItems, rules, now, faults, calc, query, capture>>

\* the retry that self.retry scheduled runs the task again: 227
Retry(r) ==
    /\ runs[r].pc = "retry"
    /\ Load(r, runs[r].invoice_id)
    /\ UNCHANGED <<entries, invoices, lineItems, rules, now, faults, calc, query, capture>>

\* 129-175: resolve the rule once, build one line item per entry, the totals
Apply(r) ==
    /\ runs[r].pc = "collected"
    /\ \E rule \in (IF runs[r].invoice.project_id # NULL
                    THEN get_active_for_project(rules, runs[r].invoice.project_id, now)
                    ELSE {NoRule}) :
          LET run == runs[r]
              items == [i \in 1..Len(run.entries) |->
                          LineItem(<<r, run.retries, i>>, run.invoice_id,
                                   run.entries[i], entries[run.entries[i]], rule)]
              subtotal == Subtotal(items)
              tax == OrZero(run.invoice.tax_cents)
          IN  runs' = [runs EXCEPT ![r] =
                 [@ EXCEPT !.pc = "built", !.rule = rule, !.line_items = items,
                           !.subtotal_cents = subtotal,
                           !.invoice = [@ EXCEPT !.subtotal_cents = subtotal,
                                                 !.tax_cents = tax,
                                                 !.total_cents = Total(subtotal, tax)]]]
    /\ UNCHANGED <<entries, invoices, lineItems, rules, now, faults, calc, query, capture>>

\* rows a flushed run holds locked until its transaction ends
Holds(r, other) ==
    /\ runs[other].pc = "flushed"
    /\ \/ runs[other].invoice_id = runs[r].invoice_id
       \/ SeqRange(runs[other].entries) \cap SeqRange(runs[r].entries) # {}

\* the row time_entries.billing_rule_id refers to (a foreign key) is there
RuleRowExists(rule_id) == rule_id = NULL \/ \E x \in rules : x.id = rule_id

\* 176: db.flush() sends the INSERTs and UPDATEs; an UPDATE of a row another
\* open transaction has updated waits for that transaction to end
Flush(r) ==
    /\ runs[r].pc = "built"
    /\ \A other \in RunIds \ {r} : ~Holds(r, other)
    /\ RuleRowExists(runs[r].rule.id)
    /\ runs' = [runs EXCEPT ![r].pc = "flushed"]
    /\ UNCHANGED <<entries, invoices, lineItems, rules, now, faults, calc, query, capture>>

\* 178-191, 224-231: generate_invoice_pdf raises; the handler asks for a retry
\* and returns an error result, and db.close() discards the flushed changes
PdfFails(r) ==
    /\ runs[r].pc = "flushed"
    /\ faults < MaxFaults
    /\ faults' = faults + 1
    /\ LET again == runs[r].retries < max_retries
       IN  runs' = [runs EXCEPT ![r] =
              Ended(runs[r].invoice_id,
                    IF again THEN runs[r].retries + 1 ELSE runs[r].retries,
                    IF again THEN "retry" ELSE "done", "error", "retried", 0)]
    /\ UNCHANGED <<entries, invoices, lineItems, rules, now, calc, query, capture>>

\* the transaction stops after the first entry
CommittedEntriesFirstOnly(run) ==
    [id \in DOMAIN entries |->
        IF run.entries # <<>> /\ id = run.entries[1]
        THEN BilledRow(entries[id], run.rule)
        ELSE entries[id]]

\* the rows of the store after the run's transaction commits
CommittedEntries(run) ==
    [id \in DOMAIN entries |->
        IF id \in SeqRange(run.entries) THEN BilledRow(entries[id], run.rule)
        ELSE entries[id]]

\* 193-222: upload_to_s3 returns a URL or None (it swallows S3 errors), the
\* invoice becomes "sent", and db.commit() makes everything visible at once
Commit(r, uploaded) ==
    /\ runs[r].pc = "flushed"
    /\ ~uploaded => faults < MaxFaults
    /\ faults' = IF uploaded THEN faults ELSE faults + 1
    /\ LET run == runs[r]
           meta == [run.invoice.meta EXCEPT
                      !.pdf_url = IF uploaded THEN "url" ELSE @,
                      !.generated_at = "set"]
           inv == [run.invoice EXCEPT !.meta = meta, !.status = "sent"]
       IN  /\ entries' = CommittedEntries(run)
           /\ lineItems' = lineItems \cup SeqRange(run.line_items)
           /\ invoices' = [invoices EXCEPT ![run.invoice_id] = inv]
           /\ runs' = [runs EXCEPT ![r] =
                 Ended(run.invoice_id, run.retries, "done", "success",
                       IF uploaded THEN "url" ELSE "no url", run.subtotal_cents)]
    /\ UNCHANGED <<rules, now, calc, query, capture>>

\* time passes
Tick ==
    /\ now < MaxTime
    /\ \E r \in RunIds : runs[r].pc = "collected"
    /\ now' = now + 1
    /\ UNCHANGED <<entries, invoices, lineItems, rules, runs, faults, calc, query, capture>>

Next ==
    \/ \E r \in RunIds, inv_id \in Requestable : Begin(r, inv_id)
    \/ \E r \in RunIds : Retry(r)
    \/ \E r \in RunIds : Apply(r)
    \/ \E r \in RunIds : Flush(r)
    \/ \E r \in RunIds : PdfFails(r)
    \/ \E r \in RunIds, uploaded \in BOOLEAN : Commit(r, uploaded)
    \/ Tick

Spec == Init /\ [][Next]_vars

(***************************************************************************)
(* Billing rules edited while invoices are generated:                      *)
(* BillingRuleService.update and .delete, billing_rule.py 59-101, next to  *)
(* one task request.                                                       *)
(***************************************************************************)
\* the fields a BillingRuleUpdate sets (model_dump(exclude_unset=True))
RuleUpdates ==
    { [rate_cents |-> 7000],
      [rate_cents |-> 0, rounding_increment_minutes |-> 30, rule_type |-> "fixed"] }

\* for key, value in update_data.items(): setattr(db_rule, key, value)
UpdatedRule(db_rule, update_data) ==
    [key \in DOMAIN db_rule |->
        IF key \in DOMAIN update_data THEN update_data[key] ELSE db_rule[key]]

\* rules edited or deleted so far
Edited == BaseRules \ rules

\* 60-82: update() of an existing rule commits the new field values
UpdateRule(rule_id, rule_data) ==
    /\ Cardinality(Edited) < MaxEdits
    /\ \E db_rule \in rules :
          /\ db_rule.id = rule_id
          /\ rules' = (rules \ {db_rule}) \cup {UpdatedRule(db_rule, rule_data)}
    /\ UNCHANGED <<entries, invoices, lineItems, now, runs, faults, calc, query, capture>>

\* 85-101: delete() of an existing rule; time_entries.billing_rule_id is
\* ON DELETE SET NULL (models/time_entry.py 17).  The DELETE waits while an
\* open transaction has flushed a reference to the rule or holds a row the
\* SET NULL has to update.
DeleteRule(rule_id) ==
    /\ Cardinality(Edited) < MaxEdits
    /\ \A r \in RunIds :
          runs[r].pc = "flushed"
             => /\ runs[r].rule.id # rule_id
                /\ \A i \in 1..Len(runs[r].entries) :
                      entries[runs[r].entries[i]].billing_rule_id # rule_id
    /\ \E db_rule \in rules :
          /\ db_rule.id = rule_id
          /\ rules' = rules \ {db_rule}
    /\ entries' = [id \in DOMAIN entries |->
                      IF entries[id].billing_rule_id = rule_id
                      THEN [entries[id] EXCEPT !.billing_rule_id = NULL]
                      ELSE entries[id]]
    /\ UNCHANGED <<invoices, lineItems, now, runs, faults, calc, query, capture>>

\* 176, 224-231: the UPDATE of time_entries.billing_rule_id refers to a rule
\* that has been deleted since it was read; db.flush() raises, the handler
\* asks for a retry and db.close() discards the session
FlushFails(r) ==
    /\ runs[r].pc = "built"
    /\ ~RuleRowExists(runs[r].rule.id)
    /\ LET again == runs[r].retries < max_retries
       IN  runs' = [runs EXCEPT ![r] =
              Ended(runs[r].invoice_id,
                    IF again THEN runs[r].retries + 1 ELSE runs[r].retries,
                    IF again THEN "retry" ELSE "done", "error", "retried", 0)]
    /\ UNCHANGED <<entries, invoices, lineItems, rules, now, faults, calc, query, capture>>

RuleIds == {x.id : x \in BaseRules}

NextFreeze ==
    \/ \E inv_id \in Requestable : Begin(1, inv_id)
    \/ Retry(1)
    \/ Apply(1)
    \/ Flush(1)
    \/ FlushFails(1)
    \/ PdfFails(1)
    \/ \E uploaded \in BOOLEAN : Commit(1, uploaded)
    \/ Tick
    \/ \E rule_id \in RuleIds, rule_data \in RuleUpdates : UpdateRule(rule_id, rule_data)
    \/ \E rule_id \in RuleIds : DeleteRule(rule_id)

SpecFreeze == Init /\ [][NextFreeze]_vars

(***************************************************************************)
(* Runs one after another: a run starts only when no other run is under    *)
(* way, and entries under review are approved in between.  Entry 1 is      *)
(* either as above or an instant (started_at = ended_at) at the end of     *)
(* the period of invoice 1: neither the schema nor the table asks for      *)
(* ended_at > started_at.                                                  *)
(***************************************************************************)
BoundaryEntries(s1, s2, s3) ==
    [BaseEntries(s1, s2, s3) EXCEPT
        ![1].started_at = BaseInvoices[1].meta.period_end,
        ![1].ended_at = BaseInvoices[1].meta.period_end,
        ![1].duration_minutes = 0]

InitSequential ==
    /\ \E st \in StartStatuses :
          \/ entries = BaseEntries(st[1], st[2], st[3])
          \/ entries = BoundaryEntries(st[1], st[2], st[3])
    /\ invoices = BaseInvoices
    /\ lineItems = {}
    /\ rules = BaseRules
    /\ now = 0
    /\ runs = [r \in RunIds |-> IdleRun]
    /\ faults = 0
    /\ calc = DummyCalc
    /\ query = DummyQuery
    /\ capture = DummyCapture

\* no run is between its start and its return
NoneRunning == \A r \in RunIds : runs[r].pc \in {"idle", "retry", "done"}

\* TimeEntryService.update with status = "approved" on an entry under
\* review: time_entry.py 72-103
Approve(entry_id) ==
    /\ entries[entry_id].status = "pending"
    /\ entries' = [entries EXCEPT ![entry_id].status = "approved"]
    /\ UNCHANGED <<invoices, lineItems, rules, now, runs, faults, calc, query, capture>>

NextSequential ==
    \/ \E r \in RunIds, inv_id \in Requestable : NoneRunning /\ Begin(r, inv_id)
    \/ \E r \in RunIds : NoneRunning /\ Retry(r)
    \/ \E r \in RunIds : Apply(r)
    \/ \E r \in RunIds : Flush(r)
    \/ \E r \in RunIds : PdfFails(r)
    \/ \E r \in RunIds, uploaded \in BOOLEAN : Commit(r, uploaded)
    \/ Tick
    \/ \E entry_id \in EntryIds : Approve(entry_id)

SpecSequential == InitSequential /\ [][NextSequential]_vars

(***************************************************************************)
(* Time capture: classifier.py, detector.py, heuristics.py.                *)
(* A text is the sequence of its characters; a signal is a dict with a     *)
(* timestamp and the optional keys app, domain and type, where a missing   *)
(* key reads as the empty text (signal.get(key, "")).  idx is the identity *)
(* of the dict object: its position in the batch.                          *)
(***************************************************************************)
UpperCase == <<"A", "B", "C", "D", "E", "F", "G", "H", "I", "J", "K", "L", "M",
               "N", "O", "P", "Q", "R", "S", "T", "U", "V", "W", "X", "Y", "Z">>
LowerCase == <<"a", "b", "c", "d", "e", "f", "g", "h", "i", "j", "k", "l", "m",
               "n", "o", "p", "q", "r", "s", "t", "u", "v", "w", "x", "y", "z">>

lower_char(c) ==
    IF \E i \in DOMAIN UpperCase : UpperCase[i] = c
    THEN LowerCase[CHOOSE i \in DOMAIN UpperCase : UpperCase[i] = c]
    ELSE c

\* a comparison that keeps the case
lower_keep(text) == text

\* str.lower()
lower(text) == [i \in 1..Len(text) |-> lower_char(text[i])]

\* needle in text (Python substring test)
Contains(needle, text) ==
    \E i \in 0..(Len(text) - Len(needle)) : SubSeq(text, i + 1, i + Len(needle)) = needle

\* classifier.py 28-37
WORK_APPLICATIONS ==
       (<<"v", "s", "c", "o", "d", "e">> :> "focused_work")
    @@ (<<"j", "e", "t", "b", "r", "a", "i", "n", "s">> :> "focused_work")
    @@ (<<"s", "u", "b", "l", "i", "m", "e">> :> "focused_work")
    @@ (<<"c", "h", "r", "o", "m", "e">> :> "research")
    @@ (<<"f", "i", "r", "e", "f", "o", "x">> :> "research")
    @@ (<<"z", "o", "o", "m">> :> "meeting")
    @@ (<<"t", "e", "a", "m", "s">> :> "meeting")
    @@ (<<"s", "l", "a", "c", "k">> :> "communication")

\* classifier.py 39-44
WORK_DOMAINS ==
    { <<"g", "i", "t", "h", "u", "b", ".", "c", "o", "m">>,
      <<"s", "t", "a", "c", "k", "o", "v", "e", "r", "f", "l", "o", "w", ".", "c", "o", "m">>,
      <<"t", "r", "e", "l", "l", "o", ".", "c", "o", "m">>,
      <<"s", "l", "a", "c", "k", ".", "c", "o", "m">> }

Keyboard == <<"k", "e", "y", "b", "o", "a", "r", "d">>

\* Python's None as a field value: no text (a sequence of characters) equals it
None == <<"None">>

\* signal.get(key, default): the default only when the key is missing
get(signal, key, default) == IF key \in DOMAIN signal THEN signal[key] ELSE default

\* classifier.py 46-61.  Each field is fetched and lower-cased only when the
\* checks before it have not returned; None has no .lower(), so the call
\* ends in an AttributeError when the field it reaches holds None.
classify_signal(signal) ==
    LET app_value == get(signal, "app", <<>>)
        domain_value == get(signal, "domain", <<>>)
        type_value == get(signal, "type", <<>>)
    IN  IF app_value = None THEN "AttributeError"
        ELSE IF lower(app_value) \in DOMAIN WORK_APPLICATIONS
             THEN WORK_APPLICATIONS[lower(app_value)]
        ELSE IF domain_value = None THEN "AttributeError"
        ELSE IF \E work_domain \in WORK_DOMAINS :
                   Contains(work_domain, lower(domain_value))
             THEN "research"
        ELSE IF type_value = None THEN "AttributeError"
        ELSE IF Contains(Keyboard, lower(type_value)) THEN "focused_work"
        ELSE "personal"

\* classifier.py 74-77, where classify_signal returns; its exception passes
\* through to the caller
is_work_related(signal) == classify_signal(signal) # "personal"

\* timestamps count half minutes: datetimes are finer than the minute, and
\* detector.py 62-63 turns a difference into (fractional) minutes
UnitsPerMinute == 2

\* sorted(signals, key=lambda x: x["timestamp"]): a stable sort
InsertByTimestamp(sorted_signals, signal) ==
    LET before == SelectSeq(sorted_signals, LAMBDA x : x.timestamp <= signal.timestamp)
        after  == SelectSeq(sorted_signals, LAMBDA x : x.timestamp > signal.timestamp)
    IN  before \o <<signal>> \o after

RECURSIVE SortedByTimestamp(_)
SortedByTimestamp(signals) ==
    IF signals = <<>> THEN <<>>
    ELSE InsertByTimestamp(SortedByTimestamp(SubSeq(signals, 1, Len(signals) - 1)),
                           signals[Len(signals)])

\* a gap equal to the threshold is not yet idle
detect_idle_periods_above(activity_signals, idle_threshold_minutes) ==
    IF Len(activity_signals) < 2 THEN <<>>
    ELSE LET sorted_signals == SortedByTimestamp(activity_signals)
             pairs == [i \in 1..(Len(sorted_signals) - 1) |->
                         [start_time |-> sorted_signals[i].timestamp,
                          end_time |-> sorted_signals[i + 1].timestamp,
                          idle_minutes |-> (sorted_signals[i + 1].timestamp
                                              - sorted_signals[i].timestamp)
                                           \div UnitsPerMinute,
                          reason |-> "inactivity_threshold"]]
         IN  SelectSeq(pairs, LAMBDA idle :
                 idle.end_time - idle.start_time
                    > idle_threshold_minutes * UnitsPerMinute)

\* detector.py 28-75: an IdleSignal for every adjacent pair of the sorted
\* signals whose gap is at least the threshold; idle_minutes = int(gap_minutes)
detect_idle_periods(activity_signals, idle_threshold_minutes) ==
    IF Len(activity_signals) < 2 THEN <<>>
    ELSE LET sorted_signals == SortedByTimestamp(activity_signals)
             pairs == [i \in 1..(Len(sorted_signals) - 1) |->
                         [start_time |-> sorted_signals[i].timestamp,
                          end_time |-> sorted_signals[i + 1].timestamp,
                          idle_minutes |-> (sorted_signals[i + 1].timestamp
                                              - sorted_signals[i].timestamp)
                                           \div UnitsPerMinute,
                          reason |-> "inactivity_threshold"]]
         IN  SelectSeq(pairs, LAMBDA idle :
                 idle.end_time - idle.start_time
                    >= idle_threshold_minutes * UnitsPerMinute)

\* a gap as long as the maximum is already a break
should_merge_below(gap_minutes, max_merge_idle) == gap_minutes < max_merge_idle

\* detector.py 78-92
should_merge_with_idle(gap_minutes, max_merge_idle) == gap_minutes <= max_merge_idle

\* detector.py 95-118: the pair (mergeable, breaks)
filter_idle_periods(idle_periods, max_merge_idle) ==
    << SelectSeq(idle_periods, LAMBDA idle :
          should_merge_with_idle(idle.idle_minutes, max_merge_idle)),
       SelectSeq(idle_periods, LAMBDA idle :
          ~should_merge_with_idle(idle.idle_minutes, max_merge_idle)) >>

\* heuristics.py 53-67: the loop over the work signals, in the order given
RECURSIVE GroupLoop(_, _, _, _)
GroupLoop(work_signals, breaks, groups, current_group) ==
    IF work_signals = <<>>
    THEN (IF current_group # <<>> THEN Append(groups, current_group) ELSE groups)
    ELSE LET signal == Head(work_signals)
             in_break == \E i \in DOMAIN breaks :
                            /\ breaks[i].start_time <= signal.timestamp
                            /\ signal.timestamp <= breaks[i].end_time
         IN  IF in_break /\ current_group # <<>>
             THEN GroupLoop(Tail(work_signals), breaks,
                            Append(groups, current_group), <<>>)
             ELSE GroupLoop(Tail(work_signals), breaks, groups,
                            Append(current_group, signal))

\* heuristics.py 33-69
group_activities(signals, idle_threshold_minutes, max_merge_idle_minutes) ==
    IF signals = <<>> THEN <<>>
    ELSE LET work_signals == SelectSeq(signals, is_work_related)
         IN  IF work_signals = <<>> THEN <<>>
             ELSE GroupLoop(work_signals,
                            filter_idle_periods(
                               detect_idle_periods(work_signals, idle_threshold_minutes),
                               max_merge_idle_minutes)[2],
                            <<>>, <<>>)

\* heuristics.py 27-31, in hundredths
FOCUSED_WORK_WEIGHT == 90
MEETING_WEIGHT == 85
RESEARCH_WEIGHT == 75
COMMUNICATION_WEIGHT == 70
UNCERTAIN_THRESHOLD == 50

RECURSIVE GCD(_, _)
GCD(a, b) == IF b = 0 THEN a ELSE GCD(b, a % b)

\* a float result as the fraction it stands for, in lowest terms.  The double
\* products count/len * weight compare with 0.5 as the fractions do (checked
\* against the interpreter for every group of up to 39 signals).
Fraction(n, d) == [num |-> n \div GCD(n, d), den |-> d \div GCD(n, d)]

\* every activity type weighs the same
type_multiplier_flat(activity_type) == UNCERTAIN_THRESHOLD

\* heuristics.py 89-94
type_multiplier(activity_type) ==
    CASE activity_type = "focused_work" -> FOCUSED_WORK_WEIGHT
      [] activity_type = "meeting" -> MEETING_WEIGHT
      [] activity_type = "research" -> RESEARCH_WEIGHT
      [] activity_type = "communication" -> COMMUNICATION_WEIGHT
      [] OTHER -> UNCERTAIN_THRESHOLD

\* type_counts[at] of heuristics.py 78-80
CountOf(activity_types, at) ==
    Cardinality({i \in DOMAIN activity_types : activity_types[i] = at})

\* max(type_counts.items(), key=lambda x: x[1])[0]: the first key, in the
\* order the dict received its keys, with the greatest count
DominantType(activity_types) ==
    LET max_count == CHOOSE c \in 1..Len(activity_types) :
                        /\ \E i \in DOMAIN activity_types : CountOf(activity_types, activity_types[i]) = c
                        /\ \A i \in DOMAIN activity_types : CountOf(activity_types, activity_types[i]) <= c
        first == CHOOSE i \in DOMAIN activity_types :
                    /\ CountOf(activity_types, activity_types[i]) = max_count
                    /\ \A j \in 1..(i - 1) :
                          CountOf(activity_types, activity_types[j]) < max_count
    IN  activity_types[first]

\* heuristics.py 71-96: consistency_score * type_multiplier
calculate_confidence(signals) ==
    IF signals = <<>> THEN Fraction(0, 1)
    ELSE LET activity_types == [i \in 1..Len(signals) |-> classify_signal(signals[i])]
             dominant_type == DominantType(activity_types)
             max_count == CountOf(activity_types, dominant_type)
         IN  Fraction(max_count * type_multiplier(dominant_type), Len(signals) * 100)

\* heuristics.py 98-135 for a non-empty group: the fields that do not merely
\* describe the group (context_data and description are left out);
\* primary_activity is the first most frequent type of get_context_data
\* (classifier.py 80-98)
create_suggested_entry(signals) ==
    LET sorted_signals == SortedByTimestamp(signals)
        confidence == calculate_confidence(signals)
    IN  [started_at |-> sorted_signals[1].timestamp,
         ended_at |-> sorted_signals[Len(sorted_signals)].timestamp,
         activity_type |-> DominantType([i \in 1..Len(signals) |->
                                            classify_signal(signals[i])]),
         confidence |-> confidence,
         should_verify |-> confidence.num * 100 < UNCERTAIN_THRESHOLD * confidence.den]

\* heuristics.py 137-155: one entry per group; an empty group gives none
generate_time_entries(signals, idle_threshold_minutes, max_merge_idle_minutes) ==
    LET groups == SelectSeq(group_activities(signals, idle_threshold_minutes,
                                             max_merge_idle_minutes),
                            LAMBDA group : group # <<>>)
    IN  [g \in 1..Len(groups) |-> create_suggested_entry(groups[g])]

(***************************************************************************)
(* The heuristics on a batch of signals: any batch of up to MaxSignals     *)
(* signals, in any order, with any timestamps, for two pairs of            *)
(* thresholds (in minutes).                                                *)
(***************************************************************************)
NoText == <<>>

\* the billing store plays no part in time capture
StoreAtRest ==
    /\ entries = BaseEntries("approved", "approved", "approved")
    /\ invoices = BaseInvoices
    /\ lineItems = {}
    /\ rules = BaseRules
    /\ now = 0
    /\ runs = [r \in RunIds |-> IdleRun]
    /\ faults = 0
    /\ calc = DummyCalc
    /\ query = DummyQuery

Signal(idx, timestamp, payload) ==
    [idx |-> idx, timestamp |-> timestamp, app |-> payload.app,
     domain |-> payload.domain, type |-> payload.type]

\* typing in an editor, reading a Q&A site in a browser, and a text editor
\* the classifier does not know
CapturePayloads ==
    { [app |-> <<"v", "s", "c", "o", "d", "e">>, domain |-> NoText, type |-> Keyboard],
      [app |-> <<"c", "h", "r", "o", "m", "e">>,
       domain |-> <<"s", "t", "a", "c", "k", "o", "v", "e", "r", "f", "l", "o", "w", ".", "c", "o", "m">>,
       type |-> NoText],
      [app |-> <<"n", "o", "t", "e", "p", "a", "d">>, domain |-> NoText,
       type |-> <<"t", "e", "x", "t", "_", "i", "n", "p", "u", "t">>] }

\* (idle_threshold_minutes, max_merge_idle_minutes)
Thresholds == {<<1, 1>>, <<1, 2>>}

Batch(n, stamps, kinds, th) ==
    [DummyCapture EXCEPT
        !.signals = [i \in 1..n |-> Signal(i, stamps[i], kinds[i])],
        !.idle_threshold_minutes = th[1],
        !.max_merge_idle_minutes = th[2]]

InitCapture ==
    /\ StoreAtRest
    /\ \E n \in 0..MaxSignals :
          \E stamps \in [1..n -> 0..MaxStamp], kinds \in [1..n -> CapturePayloads],
             th \in Thresholds :
                capture = Batch(n, stamps, kinds, th)

Generate ==
    /\ ~capture.done
    /\ capture' =
          [capture EXCEPT
              !.groups = group_activities(capture.signals,
                                          capture.idle_threshold_minutes,
                                          capture.max_merge_idle_minutes),
              !.suggested = generate_time_entries(capture.signals,
                                                  capture.idle_threshold_minutes,
                                                  capture.max_merge_idle_minutes),
              !.done = TRUE]
    /\ UNCHANGED <<entries, invoices, lineItems, rules, now, runs, faults, calc, query>>

NextCapture == Generate

SpecCapture == InitCapture /\ [][NextCapture]_vars

(***************************************************************************)
(* The idle detector on its own: any list of up to MaxSignals signals in   *)
(* any order, thresholds from 0 to MaxThreshold minutes.                   *)
(***************************************************************************)
InitIdle ==
    /\ StoreAtRest
    /\ \E n \in 0..MaxSignals :
          \E stamps \in [1..n -> 0..MaxStamp],
             th \in (0..MaxThreshold) \X (0..MaxThreshold) :
                capture = Batch(n, stamps, [i \in 1..n |-> CHOOSE p \in CapturePayloads :
                                                              p.type = Keyboard], th)

\* detect_idle_periods on the signals, then filter_idle_periods on its
\* result (as heuristics.py 47-51 chains them)
Detect ==
    /\ ~capture.done
    /\ LET idle_periods == detect_idle_periods(capture.signals,
                                               capture.idle_threshold_minutes)
           filtered == filter_idle_periods(idle_periods, capture.max_merge_idle_minutes)
       IN  capture' = [capture EXCEPT
                          !.idle_periods = idle_periods,
                          !.mergeable = filtered[1],
                          !.breaks = filtered[2],
                          !.done = TRUE]
    /\ UNCHANGED <<entries, invoices, lineItems, rules, now, runs, faults, calc, query>>

NextIdle == Detect

SpecIdle == InitIdle /\ [][NextIdle]_vars

(***************************************************************************)
(* Ingestion: ingest_events_task on a batch of up to MaxSignals signals,   *)
(* with the default thresholds of generate_time_entries.  Timestamps are   *)
(* IngestStride half-minutes apart so that gaps cross both thresholds.     *)
(***************************************************************************)
default_idle_threshold_minutes == 5
default_max_merge_idle_minutes == 10
IngestStride == 8

\* classifier.py 80-98: the dict has these four keys and no other
get_context_data(signals) ==
    LET activity_types == [i \in 1..Len(signals) |-> classify_signal(signals[i])]
        truthy(key) == {i \in DOMAIN signals :
                           /\ key \in DOMAIN signals[i]
                           /\ signals[i][key] # None
                           /\ signals[i][key] # <<>>}
    IN  [applications |-> {lower(signals[i].app) : i \in truthy("app")},
         domains |-> {lower(signals[i].domain) : i \in truthy("domain")},
         activity_distribution |->
            [at \in {activity_types[i] : i \in DOMAIN activity_types} |->
                CountOf(activity_types, at)],
         primary_activity |-> IF signals = <<>> THEN None
                              ELSE DominantType(activity_types)]

\* heuristics.py 138-155 with line 119: each suggestion carries the context
\* data of its group
SuggestedEntries(signals) ==
    LET groups == SelectSeq(group_activities(signals, default_idle_threshold_minutes,
                                             default_max_merge_idle_minutes),
                            LAMBDA group : group # <<>>)
        suggested == generate_time_entries(signals, default_idle_threshold_minutes,
                                           default_max_merge_idle_minutes)
    IN  [g \in 1..Len(suggested) |->
            suggested[g] @@ [context_data |-> get_context_data(groups[g])]]

\* ingest.py 77-129: the loop over the suggestions; acc holds the session's
\* new rows, created_ids and verification_required
RECURSIVE IngestLoop(_, _)
IngestLoop(suggested_entries, acc) ==
    IF suggested_entries = <<>> THEN acc
    ELSE LET suggested == Head(suggested_entries)
             project_id == get(suggested.context_data, "project_id", None)
             client_id == get(suggested.context_data, "client_id", None)
             new_id == Len(acc.rows) + 1
             db_entry == [project_id |-> project_id, client_id |-> client_id,
                          billing_rule_id |-> NULL,
                          started_at |-> suggested.started_at,
                          ended_at |-> suggested.ended_at,
                          duration_minutes |-> (suggested.ended_at - suggested.started_at)
                                                  \div UnitsPerMinute,
                          status |-> "pending"]
         IN  IF project_id = None \/ client_id = None
             THEN IngestLoop(Tail(suggested_entries),
                     [acc EXCEPT !.verification_required =
                         Append(@, [reason |-> "missing_project_or_client",
                                    started_at |-> suggested.started_at,
                                    ended_at |-> suggested.ended_at])])
             ELSE IngestLoop(Tail(suggested_entries),
                     [acc EXCEPT
                         !.rows = Append(@, db_entry),
                         !.created_ids = Append(@, new_id),
                         !.verification_required =
                            IF suggested.should_verify
                            THEN Append(@, [reason |-> "low_confidence",
                                            started_at |-> suggested.started_at,
                                            ended_at |-> suggested.ended_at])
                            ELSE @])

InitIngest ==
    /\ StoreAtRest
    /\ \E n \in 0..MaxSignals :
          \E stamps \in [1..n -> 0..MaxStamp],
             kinds \in [1..n -> {p \in CapturePayloads : p.domain = NoText}] :
                capture = Batch(n, [i \in 1..n |-> stamps[i] * IngestStride], kinds,
                                <<default_idle_threshold_minutes,
                                  default_max_merge_idle_minutes>>)

\* ingest.py 24-158: one run of the task, to its commit
Ingest ==
    /\ ~capture.done
    /\ \E user_found \in BOOLEAN :
          IF ~user_found
          THEN /\ capture' = [capture EXCEPT !.user_found = FALSE,
                                             !.status = "error", !.done = TRUE]
               /\ entries' = entries
          ELSE LET suggested_entries == SuggestedEntries(capture.signals)
                   acc == IngestLoop(suggested_entries,
                                     [rows |-> entries, created_ids |-> <<>>,
                                      verification_required |-> <<>>])
               IN  /\ capture' = [capture EXCEPT
                                     !.suggested = suggested_entries,
                                     !.created_ids = acc.created_ids,
                                     !.verification_required = acc.verification_required,
                                     !.status = "success",
                                     !.done = TRUE]
                   /\ entries' = acc.rows
    /\ UNCHANGED <<invoices, lineItems, rules, now, runs, faults, calc, query>>

NextIngest == Ingest

SpecIngest == InitIngest /\ [][NextIngest]_vars

(***************************************************************************)
(* Scoring one group: create_suggested_entry on any group of up to         *)
(* MaxSignals signals of the five kinds the weights tell apart.            *)
(***************************************************************************)
ConfidencePayloads ==
    CapturePayloads \cup
    { [app |-> <<"z", "o", "o", "m">>, domain |-> NoText, type |-> NoText],
      [app |-> <<"s", "l", "a", "c", "k">>, domain |-> NoText, type |-> NoText] }

InitConfidence ==
    /\ StoreAtRest
    /\ \E n \in 0..MaxSignals :
          \E kinds \in [1..n -> ConfidencePayloads] :
             capture = [DummyCapture EXCEPT
                           !.signals = [i \in 1..n |-> Signal(i, i, kinds[i])]]

Score ==
    /\ ~capture.done
    /\ capture' =
          [capture EXCEPT
              !.suggested = IF capture.signals = <<>> THEN <<>>
                            ELSE <<create_suggested_entry(capture.signals)>>,
              !.activity_types = [i \in 1..Len(capture.signals) |->
                                     classify_signal(capture.signals[i])],
              !.done = TRUE]
    /\ UNCHANGED <<entries, invoices, lineItems, rules, now, runs, faults, calc, query>>

NextConfidence == Score

SpecConfidence == InitConfidence /\ [][NextConfidence]_vars

(***************************************************************************)
(* The classifier on one signal: application names, domains and signal     *)
(* types in several spellings, each signal classified ClassifyCalls times. *)
(***************************************************************************)
AppSamples ==
    { NoText,
      <<"v", "s", "c", "o", "d", "e">>,
      <<"V", "S", "C", "o", "d", "e">>,
      <<"C", "H", "R", "O", "M", "E">>,
      <<"Z", "o", "o", "m">>,
      <<"s", "l", "a", "c", "k">>,
      <<"n", "o", "t", "e", "p", "a", "d">> }

DomainSamples ==
    { NoText,
      <<"g", "i", "t", "h", "u", "b", ".", "c", "o", "m">>,
      <<"G", "i", "t", "H", "u", "b", ".", "c", "o", "m">>,
      <<"g", "i", "s", "t", ".", "g", "i", "t", "h", "u", "b", ".", "c", "o", "m">>,
      <<"e", "x", "a", "m", "p", "l", "e", ".", "c", "o", "m">> }

TypeSamples ==
    { NoText,
      Keyboard,
      <<"U", "S", "B", "_", "K", "e", "y", "b", "o", "a", "r", "d">>,
      <<"m", "o", "u", "s", "e">> }

InitClassify ==
    /\ StoreAtRest
    /\ \E app \in AppSamples, domain \in DomainSamples, type \in TypeSamples :
          capture = [DummyCapture EXCEPT
                        !.signals = <<Signal(1, 0, [app |-> app, domain |-> domain,
                                                    type |-> type])>>]

Classify ==
    /\ Len(capture.activity_types) < ClassifyCalls
    /\ capture' =
          [capture EXCEPT
              !.activity_types = Append(@, classify_signal(capture.signals[1])),
              !.work_related = Append(@, is_work_related(capture.signals[1])),
              !.done = TRUE]
    /\ UNCHANGED <<entries, invoices, lineItems, rules, now, runs, faults, calc, query>>

NextClassify == Classify

SpecClassify == InitClassify /\ [][NextClassify]_vars

(***************************************************************************)
(* The classifier on any signal: each of app, domain and type is missing,  *)
(* None, empty, a value the classifier knows or one it does not know.      *)
(***************************************************************************)
OptionalFields == {"app", "domain", "type"}

FieldValues(key) ==
    {None, NoText}
    \cup (CASE key = "app" -> { <<"Z", "o", "o", "m">>, <<"n", "o", "t", "e", "p", "a", "d">> }
           [] key = "domain" -> { <<"g", "i", "t", "h", "u", "b", ".", "c", "o", "m">>,
                                  <<"e", "x", "a", "m", "p", "l", "e", ".", "c", "o", "m">> }
           [] key = "type" -> { Keyboard, <<"m", "o", "u", "s", "e">> })

InitClassifyAny ==
    /\ StoreAtRest
    /\ \E present \in SUBSET OptionalFields :
          \E fields \in [present -> UNION {FieldValues(key) : key \in OptionalFields}] :
             /\ \A key \in present : fields[key] \in FieldValues(key)
             /\ capture = [DummyCapture EXCEPT
                              !.signals = <<[idx |-> 1, timestamp |-> 0] @@ fields>>]

\* one call of classify_signal and of is_work_related on the signal; a call
\* that raises returns nothing
ClassifyAny ==
    /\ Len(capture.activity_types) < ClassifyCalls
    /\ capture.raised = "none"
    /\ LET result == classify_signal(capture.signals[1])
       IN  capture' =
              IF result = "AttributeError"
              THEN [capture EXCEPT !.raised = result, !.done = TRUE]
              ELSE [capture EXCEPT
                       !.activity_types = Append(@, result),
                       !.work_related = Append(@, is_work_related(capture.signals[1])),
                       !.done = TRUE]
    /\ UNCHANGED <<entries, invoices, lineItems, rules, now, runs, faults, calc, query>>

NextClassifyAny == ClassifyAny

SpecClassifyAny == InitClassifyAny /\ [][NextClassifyAny]_vars

(***************************************************************************)
(* The line-item arithmetic on its own: the loop body of billing.py        *)
(* 139-144 applied to one duration, increment and rate.                    *)
(***************************************************************************)
CalcRates == {0, 1, 5, 150, 10000}
CalcIncrements == {NULL} \cup (-1..MaxIncrement) \cup {15}

InitCalc ==
    /\ entries = BaseEntries("approved", "approved", "approved")
    /\ invoices = BaseInvoices
    /\ lineItems = {}
    /\ rules = BaseRules
    /\ now = 0
    /\ runs = [r \in RunIds |-> IdleRun]
    /\ faults = 0
    /\ query = DummyQuery
    /\ capture = DummyCapture
    /\ \E m \in 0..MaxMinutes, inc \in CalcIncrements, rate \in CalcRates :
          calc = [minutes |-> m, increment |-> inc, rate_cents |-> rate,
                  billable_minutes |-> NULL, amount_cents |-> NULL, done |-> FALSE]

Compute ==
    /\ ~calc.done
    /\ LET billable_minutes == _round_minutes(calc.minutes, calc.increment)
       IN  calc' = [calc EXCEPT !.billable_minutes = billable_minutes,
                                !.amount_cents = AmountCents(billable_minutes, calc.rate_cents),
                                !.done = TRUE]
    /\ UNCHANGED <<entries, invoices, lineItems, rules, now, runs, faults, query, capture>>

NextCalc == Compute

SpecCalc == InitCalc /\ [][NextCalc]_vars

(***************************************************************************)
(* The resolver on its own: any small set of rules, any project, any       *)
(* instant.                                                                *)
(***************************************************************************)
Projects == {1, 2}

RuleUniverse ==
    {[id |-> 100 * p + 10 * from + (IF to = NULL THEN 9 ELSE to),
      project_id |-> p, rule_type |-> "hourly", rate_cents |-> 100 * (from + 1),
      rounding_increment_minutes |-> 0, effective_from |-> from,
      effective_to |-> to] : p \in Projects, from \in Times, to \in Times \cup {NULL}}

\* every set of at most n rules
RuleSets(n) ==
    {{}} \cup UNION {{SeqRange(f) : f \in [1..k -> RuleUniverse]} : k \in 1..n}

InitResolve ==
    /\ entries = BaseEntries("approved", "approved", "approved")
    /\ invoices = BaseInvoices
    /\ lineItems = {}
    /\ now = 0
    /\ runs = [r \in RunIds |-> IdleRun]
    /\ faults = 0
    /\ calc = DummyCalc
    /\ capture = DummyCapture
    /\ rules \in RuleSets(MaxRuleSet)
    /\ \E p \in Projects, t \in Times :
          query = [project_id |-> p, at |-> t, result |-> NoRule, done |-> FALSE]

Resolve ==
    /\ ~query.done
    /\ \E rule \in get_active_for_project(rules, query.project_id, query.at) :
          query' = [query EXCEPT !.result = rule, !.done = TRUE]
    /\ UNCHANGED <<entries, invoices, lineItems, rules, now, runs, faults, calc, capture>>

NextResolve == Resolve

SpecResolve == InitResolve /\ [][NextResolve]_vars

(***************************************************************************)
(* Properties                                                              *)
(***************************************************************************)
NoEntries == "No approved time entries found for invoice"

\* entry e belongs to the invoice's client, project (when it has one) and
\* period (each bound when it has one)
InvoiceScope(inv, e) ==
    /\ e.client_id = inv.client_id
    /\ inv.project_id \in {NULL, e.project_id}
    /\ inv.meta.period_start = NULL \/ inv.meta.period_start <= e.started_at
    /\ inv.meta.period_end = NULL \/ e.ended_at <= inv.meta.period_end

\* run r starts (or restarts) in this step
Starting(r) == runs[r].pc \in {"idle", "retry"} /\ runs'[r].pc # runs[r].pc

\* run r commits in this step
Committing(r) == runs[r].pc = "flushed" /\ runs'[r].result = "success"

\* run r fails downstream of its flush in this step
FailingDownstream(r) == runs[r].pc = "flushed" /\ runs'[r].result = "error"

\* the rows a step inserts into invoice_line_items
NewItems == lineItems' \ lineItems

RECURSIVE SetSumAmounts(_)
SetSumAmounts(S) ==
    IF S = {} THEN 0
    ELSE LET x == CHOOSE y \in S : TRUE
         IN  x.amount_cents + SetSumAmounts(S \ {x})

\* C1: at-most-once billing: in no reachable state is one time entry
\* referenced by two line items (of two concurrent runs that both selected it
\* exactly one creates the line item, the other creates none).
C1_AtMostOnce ==
    \A a, b \in lineItems : a.time_entry_id = b.time_entry_id => a = b

\* C2 as stated: a run that fails downstream (PDF rendering or upload) after
\* marking its entries billed leaves them billed in the store when it ends.
C2_BilledKeptOnFailure ==
    [][\A r \in RunIds :
          FailingDownstream(r)
             => \A i \in 1..Len(runs[r].entries) :
                   entries'[runs[r].entries[i]].status = "billed"]_vars

\* C2 amended: a failed upload (upload_to_s3 returns no URL) does not stop the
\* commit, so the entries of that run are billed in the store when it ends; a
\* failed PDF rendering ends the run without a commit, and the step leaves
\* every time entry, line item and invoice of the store as it was.
C2_UploadKeepsPdfDiscards ==
    [][\A r \in RunIds :
          /\ (Committing(r) /\ runs'[r].message = "no url")
                => \A i \in 1..Len(runs[r].entries) :
                      entries'[runs[r].entries[i]].status = "billed"
          /\ FailingDownstream(r)
                => /\ entries' = entries
                   /\ lineItems' = lineItems
                   /\ invoices' = invoices]_vars

\* a run has failed downstream and an entry of its invoice is still approved
C2_Witness ==
    \E r \in RunIds :
        /\ runs[r].result = "error" /\ runs[r].message = "retried"
        /\ invoices[runs[r].invoice_id].status = "draft"
        /\ \E id \in EntryIds :
              /\ entries[id].status = "approved"
              /\ InvoiceScope(invoices[runs[r].invoice_id], entries[id])
        /\ lineItems = {}

\* C3: a run gives a line item only to an entry whose status is approved; the
\* entry ends billed, with billing_rule_id the rule of the line item when one
\* was resolved; entries that are pending, rejected or billed get no line item
\* and keep their status.
C3_OnlyApprovedBilled ==
    [][/\ \A li \in NewItems :
             /\ entries[li.time_entry_id].status = "approved"
             /\ entries'[li.time_entry_id].status = "billed"
             /\ li.billing_rule_snapshot.rule_id # NULL
                   => entries'[li.time_entry_id].billing_rule_id
                         = li.billing_rule_snapshot.rule_id
       /\ \A id \in EntryIds :
             entries[id].status # "approved"
                => entries'[id].status = entries[id].status]_vars

\* C4: a run that finds zero approved entries matching its invoice (client,
\* project, period) ends with the 'no approved entries' error result and
\* leaves every invoice, line item and time entry unchanged.
C4_EmptyFailsLoudly ==
    [][\A r \in RunIds :
          (/\ Starting(r)
           /\ runs'[r].invoice_id \in DOMAIN invoices
           /\ ~\E id \in EntryIds :
                 /\ entries[id].status = "approved"
                 /\ InvoiceScope(invoices[runs'[r].invoice_id], entries[id]))
             => /\ runs'[r].pc = "done"
                /\ runs'[r].result = "error"
                /\ runs'[r].message = NoEntries
                /\ invoices' = invoices
                /\ lineItems' = lineItems
                /\ entries' = entries]_vars

C4_Witness ==
    \E r \in RunIds :
        /\ runs[r].pc = "done" /\ runs[r].message = NoEntries
        /\ invoices[runs[r].invoice_id].status = "draft"

\* C5: with no matching rule (or no project) the run does not fail: the step
\* after the rule lookup builds the line items, and its commit reports
\* success, inserts exactly one line item per selected entry with unit price
\* 0, amount 0 and a snapshot without rule id, marks the entry billed and
\* leaves its billing_rule_id as it was.
C5_NoRuleZeroRate ==
    [][\A r \in RunIds :
          /\ (runs[r].pc = "collected" /\ runs'[r].pc # "collected")
                => (runs'[r].pc = "built" /\ runs'[r].result = "none")
          /\ (Committing(r) /\ runs[r].rule.id = NULL)
                => \A i \in 1..Len(runs[r].entries) :
                      LET id == runs[r].entries[i]
                          mine == {li \in NewItems : li.time_entry_id = id}
                      IN  /\ Cardinality(mine) = 1
                          /\ \A li \in mine :
                                /\ li.unit_price_cents = 0
                                /\ li.amount_cents = 0
                                /\ li.billing_rule_snapshot.rule_id = NULL
                          /\ entries'[id].status = "billed"
                          /\ entries'[id].billing_rule_id = entries[id].billing_rule_id]_vars

C5_Witness ==
    \E li \in lineItems :
        /\ li.billing_rule_snapshot.rule_id = NULL
        /\ invoices[li.invoice_id].project_id # NULL
        /\ invoices[li.invoice_id].status = "sent"
        /\ entries[li.time_entry_id].status = "billed"
        /\ entries[li.time_entry_id].billing_rule_id # NULL

\* C6: the resolver returns a rule of the queried project whose half-open
\* window [effective_from, effective_to) contains the instant and whose
\* effective_from is the greatest among such rules, and null exactly when
\* there is none; a rule starting at the instant matches, one ending at it
\* does not, and rules of other projects play no part.
C6_LatestEffectiveFrom ==
    query.done =>
        LET p == query.project_id
            t == query.at
            res == query.result
            Covering == {r \in rules :
                            /\ r.project_id = p
                            /\ ~(t < r.effective_from)
                            /\ (r.effective_to # NULL => t < r.effective_to)}
        IN  /\ (Covering = {}) <=> (res = NoRule)
            /\ Covering # {}
                  => /\ res \in Covering
                     /\ ~\E o \in Covering : o.effective_from > res.effective_from
            /\ (\E r \in rules : r.project_id = p /\ r.effective_from = t
                                 /\ r.effective_to = NULL) => res.effective_from = t
            /\ res # NoRule => (res.project_id = p /\ res.effective_to # t)

C6_Witness ==
    /\ query.done
    /\ \E a, b \in rules :
          /\ a.project_id = query.project_id /\ b.project_id = query.project_id
          /\ a.effective_from < b.effective_from
          /\ b.effective_from <= query.at
          /\ a.effective_to # NULL /\ a.effective_to > query.at
          /\ b.effective_to = NULL
          /\ query.result = b

\* C7: the commit of a run leaves the invoice's subtotal_cents equal to the
\* exact integer sum of amount_cents over the line items the run inserted.
C7_SubtotalIsSum ==
    [][\A r \in RunIds :
          Committing(r)
             => /\ NewItems # {}
                /\ invoices'[runs[r].invoice_id].subtotal_cents = SetSumAmounts(NewItems)
                /\ runs'[r].subtotal_cents = SetSumAmounts(NewItems)]_vars

C7_Witness ==
    \E r \in RunIds :
        /\ runs[r].result = "success" /\ runs[r].subtotal_cents = 3
        /\ invoices[runs[r].invoice_id].subtotal_cents = 3
        /\ \E a, b \in lineItems :
              /\ a.invoice_id = runs[r].invoice_id /\ b.invoice_id = runs[r].invoice_id
              /\ a.amount_cents = 2 /\ b.amount_cents = 1

\* C8: the commit of a run leaves total_cents = subtotal_cents + tax_cents on
\* the invoice, with tax_cents the value the invoice had before.
C8_TotalIdentity ==
    [][\A r \in RunIds :
          Committing(r)
             => LET before == invoices[runs[r].invoice_id]
                    after == invoices'[runs[r].invoice_id]
                IN  /\ after.total_cents = after.subtotal_cents + after.tax_cents
                    /\ after.tax_cents = before.tax_cents]_vars

C8_Witness ==
    \E id \in InvoiceIds :
        /\ invoices[id].status = "sent"
        /\ invoices[id].tax_cents = 7
        /\ invoices[id].subtotal_cents = 10000
        /\ invoices[id].total_cents = 10007

\* C9: amount_cents is billable_minutes * rate_cents / 60 rounded to the
\* nearest cent with halves rounded up.
C9_RoundHalfUp ==
    calc.done
        => calc.amount_cents * (2 * MinutesPerHour)
              = (2 * calc.billable_minutes * calc.rate_cents + MinutesPerHour)
                - ((2 * calc.billable_minutes * calc.rate_cents + MinutesPerHour)
                      % (2 * MinutesPerHour))

\* C10: for minutes >= 0 and increment > 0, _round_minutes gives the least
\* multiple of increment that is >= minutes; for increment 0, None or
\* negative it gives minutes; the result is never smaller than minutes.
C10_LeastMultiple ==
    calc.done =>
        LET m == calc.minutes
            inc == calc.increment
            b == calc.billable_minutes
        IN  /\ b >= m
            /\ (inc # NULL /\ inc > 0)
                  => /\ b % inc = 0
                     /\ b - m < inc
            /\ (inc = NULL \/ inc <= 0) => b = m

C10_Witness ==
    /\ calc.done
    /\ calc.minutes = 17 /\ calc.increment = 15 /\ calc.billable_minutes = 30

\* C11: rounding is idempotent: rounding the rounded minutes again with the
\* same increment gives the rounded minutes.
C11_RoundIdempotent ==
    calc.done =>
        _round_minutes(calc.billable_minutes, calc.increment) = calc.billable_minutes

C11_Witness ==
    /\ calc.done
    /\ calc.increment = 7 /\ calc.minutes = 17 /\ calc.billable_minutes = 21
    /\ _round_minutes(21, 7) = 21

\* C12: the commit of a run inserts exactly one line item per entry the run
\* selected, each carrying that entry's id as time_entry_id: as many line
\* items as selected entries, with pairwise distinct time_entry_ids.
C12_OneEntryOneLine ==
    [][\A r \in RunIds :
          Committing(r)
             => /\ Cardinality(NewItems) = Len(runs[r].entries)
                /\ {li.time_entry_id : li \in NewItems} = SeqRange(runs[r].entries)
                /\ \A a, b \in NewItems : a.time_entry_id = b.time_entry_id => a = b
                /\ \A i, j \in 1..Len(runs[r].entries) :
                      runs[r].entries[i] = runs[r].entries[j] => i = j]_vars

C12_Witness ==
    \E a, b, c \in lineItems :
        /\ a.invoice_id = b.invoice_id /\ b.invoice_id = c.invoice_id
        /\ invoices[a.invoice_id].status = "sent"
        /\ a.id[1] = b.id[1] /\ b.id[1] = c.id[1]
        /\ Cardinality({a.time_entry_id, b.time_entry_id, c.time_entry_id}) = 3

\* C13: the line items of a run are in ascending order of their entries'
\* started_at, and two runs over the same set of entries produce their line
\* items in the same order, also when entries have equal started_at.
C13_SameOrderEveryRun ==
    /\ \A r \in RunIds : \A i, j \in 1..Len(runs[r].line_items) :
          i < j => entries[runs[r].line_items[i].time_entry_id].started_at
                      <= entries[runs[r].line_items[j].time_entry_id].started_at
    /\ \A r1, r2 \in RunIds :
          (/\ runs[r1].line_items # <<>>
           /\ SeqRange(runs[r1].entries) = SeqRange(runs[r2].entries)
           /\ Len(runs[r1].line_items) = Len(runs[r2].line_items))
             => \A i \in 1..Len(runs[r1].line_items) :
                   runs[r1].line_items[i].time_entry_id
                      = runs[r2].line_items[i].time_entry_id

\* C14: every line item a commit inserts carries in billing_rule_snapshot the
\* id, type, rate_cents and increment_minutes of the rule its amount was
\* computed with, and its unit price and amount follow from the snapshot; a
\* later update or deletion of a billing rule leaves every committed line
\* item (snapshot, unit_price_cents, amount_cents) and every invoice's totals
\* as they were.
C14_SnapshotFrozen ==
    [][/\ \A r \in RunIds :
             Committing(r)
                => \A li \in NewItems :
                      /\ li.billing_rule_snapshot =
                            [rule_id |-> runs[r].rule.id,
                             rule_type |-> runs[r].rule.rule_type,
                             rate_cents |-> OrZero(RuleRate(runs[r].rule)),
                             increment_minutes |-> OrZero(RuleIncrement(runs[r].rule))]
                      /\ li.unit_price_cents = li.billing_rule_snapshot.rate_cents
                      /\ li.amount_cents =
                            AmountCents(
                               _round_minutes(entries[li.time_entry_id].duration_minutes,
                                              li.billing_rule_snapshot.increment_minutes),
                               li.billing_rule_snapshot.rate_cents)
       /\ rules' # rules => (lineItems' = lineItems /\ invoices' = invoices)
       /\ lineItems \subseteq lineItems']_vars

\* a rule was deleted after the commit of an invoice computed with it: the
\* billed entry has lost its reference, the line item still names the rule
C14_Witness ==
    \E li \in lineItems :
        /\ li.billing_rule_snapshot.rule_id = 1
        /\ li.billing_rule_snapshot.rate_cents = 10000
        /\ li.amount_cents = 5000
        /\ ~\E x \in rules : x.id = 1
        /\ entries[li.time_entry_id].status = "billed"
        /\ entries[li.time_entry_id].billing_rule_id = NULL
        /\ invoices[li.invoice_id].status = "sent"
        /\ invoices[li.invoice_id].subtotal_cents = 10000

\* how often the signal with identity idx occurs in the groups
Occurrences(groups, idx) ==
    Cardinality({gk \in {<<g, k>> : g \in DOMAIN groups, k \in 1..MaxSignals + 1} :
                    /\ gk[2] <= Len(groups[gk[1]])
                    /\ groups[gk[1]][gk[2]].idx = idx})

\* the batch in the order given by the permutation p of its positions
Permuted(signals, p) == [i \in DOMAIN signals |-> signals[p[i]]]

Orders(n) == {p \in [1..n -> 1..n] : \A i, j \in 1..n : p[i] = p[j] => i = j}

\* C15: the groups returned by group_activities partition the work-related
\* signals of the batch: every work-related signal is in exactly one group,
\* once, and no personal signal is in any group.
C15_GroupsPartitionWork ==
    capture.done =>
        \A i \in DOMAIN capture.signals :
            Occurrences(capture.groups, capture.signals[i].idx)
               = IF is_work_related(capture.signals[i]) THEN 1 ELSE 0

\* C16: every group returned by group_activities is non-empty, lists its
\* signals in non-decreasing timestamp order, and has no two consecutive
\* signals further apart than max_merge_idle_minutes.
C16_GroupInvariant ==
    capture.done =>
        \A g \in DOMAIN capture.groups :
            LET group == capture.groups[g]
            IN  /\ group # <<>>
                /\ \A k \in 1..(Len(group) - 1) :
                      /\ group[k].timestamp <= group[k + 1].timestamp
                      /\ group[k + 1].timestamp - group[k].timestamp
                            <= capture.max_merge_idle_minutes * UnitsPerMinute

\* C17: generate_time_entries returns the same suggested entries (started_at,
\* ended_at, activity type, confidence) for every permutation of the batch.
C17_OrderIndependent ==
    capture.done =>
        \A p \in Orders(Len(capture.signals)) :
            generate_time_entries(Permuted(capture.signals, p),
                                  capture.idle_threshold_minutes,
                                  capture.max_merge_idle_minutes)
               = capture.suggested

\* C18: for a time-ordered batch of work-related signals s1..sn with exactly
\* one break gap, between sk and sk+1, generate_time_entries returns exactly
\* two entries: s1.timestamp to sk.timestamp and sk+1.timestamp to
\* sn.timestamp.
C18_TwoSessions ==
    capture.done =>
        LET sig == capture.signals
            n == Len(sig)
            gap(i) == sig[i + 1].timestamp - sig[i].timestamp
            break_gap(i) == gap(i) >= (capture.max_merge_idle_minutes + 1) * UnitsPerMinute
            merged_gap(i) == /\ gap(i) >= 0
                             /\ gap(i) <= capture.max_merge_idle_minutes * UnitsPerMinute
        IN  \A k \in 1..(n - 1) :
               (/\ \A i \in 1..n : is_work_related(sig[i])
                /\ break_gap(k)
                /\ \A i \in (1..(n - 1)) \ {k} : merged_gap(i))
                  => /\ Len(capture.suggested) = 2
                     /\ capture.suggested[1].started_at = sig[1].timestamp
                     /\ capture.suggested[1].ended_at = sig[k].timestamp
                     /\ capture.suggested[2].started_at = sig[k + 1].timestamp
                     /\ capture.suggested[2].ended_at = sig[n].timestamp

\* the weights as the claim lists them, in hundredths
ClaimedWeight(activity_type) ==
    IF activity_type = "focused_work" THEN 90
    ELSE IF activity_type = "meeting" THEN 85
    ELSE IF activity_type = "research" THEN 75
    ELSE IF activity_type = "communication" THEN 70
    ELSE 50

\* C19: the confidence of a group is in [0,1] and equals (count of the most
\* frequent activity type / number of signals) times that type's weight
\* (focused_work 0.9, meeting 0.85, research 0.75, communication 0.7, else
\* 0.5); a group of one type has confidence equal to the weight; and
\* should_verify holds exactly when the confidence is below 0.5.
C19_ConfidenceValue ==
    (capture.done /\ capture.signals # <<>>) =>
        LET conf == capture.suggested[1].confidence
            types == capture.activity_types
            n == Len(capture.signals)
            counts == {CountOf(types, types[i]) : i \in 1..n}
            most == CHOOSE c \in counts : \A d \in counts : d <= c
        IN  /\ 0 <= conf.num /\ conf.num <= conf.den /\ conf.den > 0
            /\ \E i \in 1..n :
                  /\ CountOf(types, types[i]) = most
                  /\ conf.num * (n * 100) = conf.den * (most * ClaimedWeight(types[i]))
            /\ (\A i \in 1..n : types[i] = types[1])
                  => conf.num * 100 = conf.den * ClaimedWeight(types[1])
            /\ capture.suggested[1].should_verify <=> (2 * conf.num < conf.den)

\* three signals of three types: consistency 1/3, confidence below 0.5
C19_Witness ==
    /\ capture.done
    /\ Len(capture.signals) = 3
    /\ Cardinality(SeqRange(capture.activity_types)) = 3
    /\ capture.activity_types[1] = "focused_work"
    /\ capture.suggested[1].confidence = [num |-> 3, den |-> 10]
    /\ capture.suggested[1].should_verify

\* two texts are equal up to the case of their letters
SameIgnoringCase(a, b) ==
    /\ Len(a) = Len(b)
    /\ \A i \in 1..Len(a) :
          \/ a[i] = b[i]
          \/ \E j \in DOMAIN UpperCase : {a[i], b[i]} = {UpperCase[j], LowerCase[j]}

\* some part of text is needle, up to case
HasIgnoringCase(needle, text) ==
    \E i \in 0..(Len(text) - Len(needle)) :
        SameIgnoringCase(SubSeq(text, i + 1, i + Len(needle)), needle)

\* C20: classify_signal returns the table entry of the signal's application
\* name, compared without regard to case, when the application is known;
\* otherwise research when the domain matches a work domain; otherwise
\* focused_work when the signal type contains 'keyboard'; otherwise personal.
\* Classifying the same signal again gives the same result, and
\* is_work_related holds exactly when the result is not personal.
C20_ClassifyPrecedence ==
    \A c \in DOMAIN capture.activity_types :
        LET signal == capture.signals[1]
            result == capture.activity_types[c]
            known == {name \in DOMAIN WORK_APPLICATIONS : SameIgnoringCase(name, signal.app)}
        IN  /\ known # {} => \E name \in known : result = WORK_APPLICATIONS[name]
            /\ known = {} =>
                  result =
                     IF \E work_domain \in WORK_DOMAINS :
                           HasIgnoringCase(work_domain, signal.domain)
                     THEN "research"
                     ELSE IF HasIgnoringCase(Keyboard, signal.type) THEN "focused_work"
                     ELSE "personal"
            /\ result = capture.activity_types[1]
            /\ capture.work_related[c] <=> (result # "personal")

\* a known application in mixed case wins over a work domain
C20_Witness ==
    /\ Len(capture.activity_types) = ClassifyCalls
    /\ capture.signals[1].app = <<"Z", "o", "o", "m">>
    /\ capture.signals[1].domain = <<"G", "i", "t", "H", "u", "b", ".", "c", "o", "m">>
    /\ capture.activity_types[1] = "meeting"
    /\ capture.work_related[1]

\* classifier.py 15-22
ActivityTypes ==
    {"focused_work", "research", "meeting", "communication", "admin", "personal", "idle"}

\* the field of a signal reads as unrecognised: missing, None, or a text the
\* classifier's tables do not match
Unrecognised(signal) ==
    LET plain(key) == IF key \in DOMAIN signal /\ signal[key] # None
                      THEN signal[key] ELSE NoText
    IN  /\ \A name \in DOMAIN WORK_APPLICATIONS : ~SameIgnoringCase(name, plain("app"))
        /\ \A work_domain \in WORK_DOMAINS : ~HasIgnoringCase(work_domain, plain("domain"))
        /\ ~HasIgnoringCase(Keyboard, plain("type"))

\* C21: classify_signal and is_work_related return a value and never raise,
\* for any signal: with app, domain or type missing or None, and with
\* unrecognised apps, domains and types, which come out as personal.
C21_ClassificationTotal ==
    /\ capture.raised = "none"
    /\ capture.done =>
          /\ capture.activity_types # <<>>
          /\ \A c \in DOMAIN capture.activity_types :
                /\ capture.activity_types[c] \in ActivityTypes
                /\ capture.work_related[c] \in BOOLEAN
                /\ Unrecognised(capture.signals[1]) =>
                      capture.activity_types[c] = "personal"

\* the k-th smallest timestamp of a list of signals
KthTimestamp(signals, k) ==
    CHOOSE t \in {signals[i].timestamp : i \in DOMAIN signals} :
        /\ Cardinality({i \in DOMAIN signals : signals[i].timestamp < t}) < k
        /\ k <= Cardinality({i \in DOMAIN signals : signals[i].timestamp <= t})

\* the places k where the k-th and (k+1)-th timestamps are a threshold apart
IdleGaps(signals, idle_threshold_minutes) ==
    {k \in 1..(Len(signals) - 1) :
        KthTimestamp(signals, k + 1) - KthTimestamp(signals, k)
           >= idle_threshold_minutes * UnitsPerMinute}

\* the j-th smallest member of a set of numbers
KthMember(S, j) == CHOOSE k \in S : Cardinality({q \in S : q <= k}) = j

\* C22: detect_idle_periods returns, in ascending time order, exactly one
\* idle period with reason inactivity_threshold for each adjacent pair of the
\* timestamp-sorted signals whose gap in minutes is at least the threshold,
\* from the earlier to the later timestamp, and nothing else; nothing for 0
\* or 1 signals; the caller's list is left as it was.
C22_IdleDetection ==
    [][(~capture.done /\ capture'.done) =>
          LET signals == capture.signals
              gaps == IdleGaps(signals, capture.idle_threshold_minutes)
              idle_periods == capture'.idle_periods
          IN  /\ capture'.signals = signals
              /\ Len(idle_periods) = Cardinality(gaps)
              /\ Len(signals) < 2 => idle_periods = <<>>
              /\ \A j \in DOMAIN idle_periods :
                    /\ idle_periods[j].start_time
                          = KthTimestamp(signals, KthMember(gaps, j))
                    /\ idle_periods[j].end_time
                          = KthTimestamp(signals, KthMember(gaps, j) + 1)
                    /\ idle_periods[j].reason = "inactivity_threshold"
              /\ \A j \in 1..(Len(idle_periods) - 1) :
                    idle_periods[j].end_time <= idle_periods[j + 1].start_time]_vars

\* three signals out of order, one gap at the threshold and one below it
C22_Witness ==
    /\ capture.done
    /\ Len(capture.signals) = 3
    /\ capture.signals[1].timestamp > capture.signals[2].timestamp
    /\ capture.idle_threshold_minutes = 1
    /\ Len(capture.idle_periods) = 1
    /\ capture.idle_periods[1].end_time - capture.idle_periods[1].start_time
          = UnitsPerMinute

\* round() of a gap in minutes, ties to the even neighbour or upwards
NearestMinutes(gap) ==
    LET q == gap \div UnitsPerMinute
        r == gap % UnitsPerMinute
    IN  IF 2 * r < UnitsPerMinute THEN {q}
        ELSE IF 2 * r > UnitsPerMinute THEN {q + 1}
        ELSE {HalfEven(q), q + 1}

\* C23: every idle period returned by detect_idle_periods has
\* end_time > start_time and idle_minutes equal to end_time - start_time in
\* minutes rounded to the nearest integer, also with duplicate timestamps and
\* gaps that are not whole minutes, for any threshold.
C23_IdlePeriodInvariant ==
    \A j \in DOMAIN capture.idle_periods :
        LET idle == capture.idle_periods[j]
        IN  /\ idle.end_time > idle.start_time
            /\ idle.idle_minutes \in NearestMinutes(idle.end_time - idle.start_time)

\* C24: filter_idle_periods puts every period in exactly one of its two
\* lists, in input order: in the mergeable list exactly when
\* idle_minutes <= max, in the breaks list exactly when idle_minutes > max.
C24_FilterPartition ==
    capture.done =>
        LET max == capture.max_merge_idle_minutes
        IN  /\ capture.mergeable
                  = SelectSeq(capture.idle_periods, LAMBDA idle : idle.idle_minutes <= max)
            /\ capture.breaks
                  = SelectSeq(capture.idle_periods, LAMBDA idle : idle.idle_minutes > max)
            /\ Len(capture.mergeable) + Len(capture.breaks) = Len(capture.idle_periods)
            /\ \A j \in DOMAIN capture.idle_periods :
                  LET idle == capture.idle_periods[j]
                      in_mergeable == \E i \in DOMAIN capture.mergeable :
                                         capture.mergeable[i] = idle
                      in_breaks == \E i \in DOMAIN capture.breaks :
                                      capture.breaks[i] = idle
                  IN  /\ in_mergeable <=> idle.idle_minutes <= max
                      /\ in_breaks <=> idle.idle_minutes > max

\* a gap exactly as long as the maximum is merged, a longer one is a break
C24_Witness ==
    /\ capture.done
    /\ Len(capture.idle_periods) = 2
    /\ Len(capture.mergeable) = 1
    /\ Len(capture.breaks) = 1
    /\ capture.mergeable[1].idle_minutes = capture.max_merge_idle_minutes
    /\ capture.breaks[1].start_time < capture.mergeable[1].start_time

\* the entries ingestion has added to the store
Ingested == DOMAIN entries \ EntryIds

\* C25: for a batch of signals from which the heuristics produce suggested
\* entries, ingest_events_task stores one TimeEntry with status pending for
\* each suggestion, with the suggestion's started_at and ended_at; ingestion
\* never creates an entry in another status.
C25_SuggestionsPersisted ==
    /\ \A id \in Ingested : entries[id].status = "pending"
    /\ capture.status = "success" =>
          /\ Cardinality(Ingested) = Len(capture.suggested)
          /\ Len(capture.created_ids) = Len(capture.suggested)
          /\ \A g \in DOMAIN capture.suggested :
                /\ capture.created_ids[g] \in Ingested
                /\ entries[capture.created_ids[g]].started_at
                      = capture.suggested[g].started_at
                /\ entries[capture.created_ids[g]].ended_at
                      = capture.suggested[g].ended_at

\* approved entries of the invoice's client and project (when it has one)
ApprovedFor(inv) ==
    {id \in DOMAIN entries :
        /\ entries[id].status = "approved"
        /\ entries[id].client_id = inv.client_id
        /\ inv.project_id \in {NULL, entries[id].project_id}}

\* C26: the entries a run bills are exactly the approved entries of the
\* invoice's client and project that fall in the half-open period
\* [periodStart, periodEnd): every such entry that ends before periodEnd is
\* selected, and no entry outside the period or at its end boundary
\* (started_at >= periodEnd) is selected, given a line item or marked billed.
C26_HalfOpenSelection ==
    [][\A r \in RunIds :
          /\ (Starting(r) /\ runs'[r].invoice_id \in DOMAIN invoices) =>
                LET inv == invoices[runs'[r].invoice_id]
                    period_start == inv.meta.period_start
                    period_end == inv.meta.period_end
                    selected == SeqRange(runs'[r].entries)
                    inside == {id \in ApprovedFor(inv) :
                                 /\ period_start = NULL
                                       \/ period_start <= entries[id].started_at
                                 /\ period_end = NULL
                                       \/ entries[id].ended_at < period_end}
                    reaching == {id \in ApprovedFor(inv) :
                                   /\ period_start = NULL
                                         \/ period_start <= entries[id].started_at
                                   /\ period_end = NULL
                                         \/ entries[id].started_at < period_end}
                IN  inside \subseteq selected /\ selected \subseteq reaching
          /\ Committing(r) =>
                /\ {li.time_entry_id : li \in NewItems} = SeqRange(runs[r].entries)
                /\ {id \in DOMAIN entries : entries'[id].status # entries[id].status}
                      = SeqRange(runs[r].entries)]_vars

\* C27: on every time entry it touches a run changes only status and
\* billing_rule_id: started_at, ended_at, duration_minutes, project_id and
\* client_id stay as they were (the rounded minutes go into the line item
\* only), and no run creates or deletes an entry.
C27_EntryFrame ==
    [][/\ DOMAIN entries' = DOMAIN entries
       /\ \A id \in DOMAIN entries :
             /\ entries'[id].started_at = entries[id].started_at
             /\ entries'[id].ended_at = entries[id].ended_at
             /\ entries'[id].duration_minutes = entries[id].duration_minutes
             /\ entries'[id].project_id = entries[id].project_id
             /\ entries'[id].client_id = entries[id].client_id
             /\ DOMAIN entries'[id] = DOMAIN entries[id]]_vars

\* a billed entry of 17 minutes whose line item was rounded to 15-minute
\* steps (0.5 h at 100.00)
C27_Witness ==
    /\ entries[1].status = "billed"
    /\ entries[1].billing_rule_id = 1
    /\ entries[1].duration_minutes = 17
    /\ \E li \in lineItems :
          /\ li.time_entry_id = 1
          /\ li.billing_rule_snapshot.increment_minutes = 15
          /\ li.amount_cents = 5000

\* run r returns in this step
Returning(r) == runs'[r] # runs[r] /\ runs'[r].pc \in {"done", "retry"}

\* C28: the store effects of a run are committed together, in one commit
\* after PDF generation and upload: a step changes the store only when a
\* run commits, and when a run returns either all of its line items, billed
\* marks, billing_rule_id attachments, invoice totals and status sent are in
\* the store, or the store is as it was (a failed run leaves nothing behind).
C28_AllOrNothing ==
    [][/\ (entries' # entries \/ lineItems' # lineItems \/ invoices' # invoices)
             => \E r \in RunIds : Committing(r)
       /\ \A r \in RunIds :
             Returning(r) =>
                \/ /\ runs'[r].result = "error"
                   /\ entries' = entries
                   /\ lineItems' = lineItems
                   /\ invoices' = invoices
                \/ /\ runs'[r].result = "success"
                   /\ runs[r].pc = "flushed"
                   /\ SeqRange(runs[r].line_items) \subseteq lineItems'
                   /\ Len(runs[r].line_items) = Len(runs[r].entries)
                   /\ \A i \in 1..Len(runs[r].entries) :
                         /\ entries'[runs[r].entries[i]].status = "billed"
                         /\ runs[r].rule.id # NULL =>
                               entries'[runs[r].entries[i]].billing_rule_id
                                  = runs[r].rule.id
                   /\ invoices'[runs[r].invoice_id].status = "sent"
                   /\ invoices'[runs[r].invoice_id].subtotal_cents
                         = runs[r].subtotal_cents
                   /\ invoices'[runs[r].invoice_id].total_cents
                         = runs[r].invoice.total_cents]_vars

\* a run whose PDF failed after its flush left nothing behind, and another
\* run committed everything
C28_Witness ==
    \E r, other \in RunIds :
        /\ runs[r].result = "error" /\ runs[r].message = "retried"
        /\ runs[other].result = "success"
        /\ runs[other].invoice_id # runs[r].invoice_id
        /\ invoices[runs[r].invoice_id].status = "draft"
        /\ invoices[runs[other].invoice_id].status = "sent"
        /\ \A li \in lineItems : li.invoice_id = runs[other].invoice_id
        /\ lineItems # {}

ActiveAt(project_id, t) ==
    {x \in rules :
        /\ x.project_id = project_id
        /\ x.effective_from <= t
        /\ x.effective_to = NULL \/ t < x.effective_to}

\* C30: a run resolves the billing rule once, from the invoice's project at
\* the instant of the run, and every line item of the run carries that
\* rule's rate, increment and id whatever the entry's started_at; when the
\* invoice has no project every selected entry is billed at unit price 0 and
\* marked billed without a rule, whatever rules are active on the entries'
\* own projects.
C30_SingleRulePerRun ==
    [][\A r \in RunIds :
          /\ (runs[r].pc = "collected" /\ runs'[r].pc = "built") =>
                LET project_id == runs[r].invoice.project_id
                    active == IF project_id = NULL THEN {} ELSE ActiveAt(project_id, now)
                    rule == runs'[r].rule
                IN  /\ active = {} <=> rule = NoRule
                    /\ active # {} =>
                          /\ rule \in active
                          /\ \A o \in active : o.effective_from <= rule.effective_from
                    /\ Len(runs'[r].line_items) = Len(runs[r].entries)
                    /\ \A i \in DOMAIN runs'[r].line_items :
                          LET li == runs'[r].line_items[i]
                          IN  /\ li.billing_rule_snapshot.rule_id = rule.id
                              /\ li.billing_rule_snapshot.rate_cents = OrZero(rule.rate_cents)
                              /\ li.billing_rule_snapshot.increment_minutes
                                    = OrZero(rule.rounding_increment_minutes)
                              /\ li.unit_price_cents = OrZero(rule.rate_cents)
          /\ Committing(r) =>
                /\ NewItems = SeqRange(runs[r].line_items)
                /\ \A a, b \in NewItems :
                      /\ a.billing_rule_snapshot = b.billing_rule_snapshot
                      /\ a.unit_price_cents = b.unit_price_cents
                /\ runs[r].invoice.project_id = NULL =>
                      /\ \A li \in NewItems :
                            /\ li.unit_price_cents = 0
                            /\ li.billing_rule_snapshot.rule_id = NULL
                      /\ \A i \in 1..Len(runs[r].entries) :
                            LET id == runs[r].entries[i]
                            IN  /\ entries'[id].status = "billed"
                                /\ entries'[id].billing_rule_id
                                      = entries[id].billing_rule_id]_vars

\* one run priced an entry that started while rule 1 was the active rule and
\* an entry that started before any rule with rule 2, the rule active when
\* the run resolved it; and an invoice without project billed an entry of
\* project 2, which has an active rule, at 0
C30_Witness ==
    /\ \E a, b \in lineItems :
          /\ a.time_entry_id = 1 /\ b.time_entry_id = 2
          /\ a.id[1] = b.id[1] /\ a.id[2] = b.id[2]
          /\ a.billing_rule_snapshot.rule_id = 2
          /\ b.billing_rule_snapshot.rule_id = 2
          /\ entries[1].started_at # entries[2].started_at
          /\ \E x \in ActiveAt(1, entries[1].started_at) : x.id = 1
          /\ ActiveAt(1, entries[2].started_at) = {}
    /\ \E c \in lineItems :
          /\ c.time_entry_id = 3
          /\ invoices[c.invoice_id].project_id = NULL
          /\ c.unit_price_cents = 0
          /\ c.billing_rule_snapshot.rule_id = NULL
          /\ ActiveAt(entries[3].project_id, now) # {}
          /\ entries[3].status = "billed"
          /\ entries[3].billing_rule_id = NULL

====
